---- MODULE Spec2Model ----
(***************************************************************************)
(* Model of the tour-construction engine of lail-tsp: the TSP class        *)
(* (src/src/tsp/tsp.ts), the greedy heuristics                             *)
(* (src/src/tsp/greedy/greedy.ts), the simulated-annealing refiner         *)
(* (src/unnamed/part_005, class Stochastic, second revision), the minimum  *)
(* spanning tree and Christofides (src/src/tsp/mst/mst.ts, heuristics.ts)  *)
(* and sumPathCost (src/src/tsp/util.ts).                                  *)
(*                                                                         *)
(* Vertex indices are 0-based as in the code; paths are sequences of       *)
(* vertex indices.  A JavaScript number is a record: a finite integer,     *)
(* +Infinity, -Infinity, NaN, or the value read past the end of an array   *)
(* (undefined).                                                            *)
(***************************************************************************)
EXTENDS Integers, Sequences, FiniteSets, TLC

(* ---------------------------------------------------------------- bounds *)

\* largest number of intermediate nodes handed to the constructor
MaxNodes == 2
\* the finite costs the distance provider answers with are 1 (adjacent
\* locations) and MaxWeight (the long way round)
MaxWeight == 2
\* number of cooling steps after which currentTemp <= minTemp
CoolSteps == 2
\* largest maxAttemptsPerTemp a caller passes
MaxAttempts == 3
\* largest successesPerTemp a caller passes (0 stands for "not passed")
MaxSuccesses == 1
\* the number of cost units in one unit of length of the Euclidean metric;
\* a Euclidean distance is held in these units, rounded down
Scale == 10

(* ------------------------------------------------------ JavaScript numbers *)

Num(v) == [t |-> "num", v |-> v]
Infinity == [t |-> "inf", v |-> 0]
NegInfinity == [t |-> "ninf", v |-> 0]
NaN == [t |-> "nan", v |-> 0]
\* what an out-of-range array read yields; it behaves as NaN in arithmetic
Undefined == [t |-> "undef", v |-> 0]

IsFinite(a) == a.t = "num"
IsNaNLike(a) == a.t \in {"nan", "undef"}

\* a + b
Plus(a, b) ==
  IF IsNaNLike(a) \/ IsNaNLike(b) THEN NaN
  ELSE IF a.t = "num" /\ b.t = "num" THEN Num(a.v + b.v)
  ELSE IF a.t = "num" THEN b
  ELSE IF b.t = "num" THEN a
  ELSE IF a.t = b.t THEN a
  ELSE NaN

Negate(a) ==
  IF a.t = "num" THEN Num(0 - a.v)
  ELSE IF a.t = "inf" THEN NegInfinity
  ELSE IF a.t = "ninf" THEN Infinity
  ELSE NaN

\* a - b
Minus(a, b) == Plus(a, Negate(b))

\* a < b
Less(a, b) ==
  IF IsNaNLike(a) \/ IsNaNLike(b) THEN FALSE
  ELSE IF a.t = "num" /\ b.t = "num" THEN a.v < b.v
  ELSE IF a.t = b.t THEN FALSE
  ELSE a.t = "ninf" \/ b.t = "inf"

\* a <= b
LessEq(a, b) ==
  IF IsNaNLike(a) \/ IsNaNLike(b) THEN FALSE
  ELSE Less(a, b) \/ a = b

\* a >= b
GreaterEq(a, b) == LessEq(b, a)

(* ------------------------------------------------------------- sequences *)

Reverse(s) == [i \in 1..Len(s) |-> s[Len(s) + 1 - i]]

\* Array.prototype.indexOf, as a 1-based position (0 when absent)
IndexOf(s, x) ==
  IF \E i \in 1..Len(s) : s[i] = x
  THEN CHOOSE i \in 1..Len(s) : s[i] = x /\ \A j \in 1..(i - 1) : s[j] # x
  ELSE 0

Range(s) == {s[i] : i \in 1..Len(s)}

\* the side of a square matrix d \in [0..n-1 -> [0..n-1 -> number]]
Side(d) == Cardinality(DOMAIN d)

\* distances[r][c]; a column past the end of the row reads undefined
Cell(d, r, c) == IF c \in DOMAIN d[r] THEN d[r][c] ELSE Undefined

(* ------------------------------------------------------- GreedyHeuristics *)

BestNeighbor(index, distance) == [index |-> index, distance |-> distance]

\* the for loop of findNearestNeighbor, from column c on; it runs to
\* distances[0].length inclusive, one column past the end of the row
RECURSIVE NearestScan(_, _, _, _, _)
NearestScan(d, vertex, visited, c, best) ==
  IF c >= Side(d) + 1 THEN best
  ELSE IF vertex = c \/ c \in visited THEN NearestScan(d, vertex, visited, c + 1, best)
  ELSE IF LessEq(Cell(d, vertex, c), best.distance)
       THEN NearestScan(d, vertex, visited, c + 1, BestNeighbor(c, Cell(d, vertex, c)))
       ELSE NearestScan(d, vertex, visited, c + 1, best)

\* variant of findNearestNeighbor whose scan keeps the larger distance
RECURSIVE NearestScanKeepingLarger(_, _, _, _, _)
NearestScanKeepingLarger(d, vertex, visited, c, best) ==
  IF c >= Side(d) + 1 THEN best
  ELSE IF vertex = c \/ c \in visited
       THEN NearestScanKeepingLarger(d, vertex, visited, c + 1, best)
  ELSE IF best.index = -1 \/ LessEq(best.distance, Cell(d, vertex, c))
       THEN NearestScanKeepingLarger(d, vertex, visited, c + 1,
                                     BestNeighbor(c, Cell(d, vertex, c)))
       ELSE NearestScanKeepingLarger(d, vertex, visited, c + 1, best)

findNearestNeighborKeepingLarger(d, vertex, visited) ==
  LET best == NearestScanKeepingLarger(d, vertex, visited, 0, BestNeighbor(-1, Infinity))
  IN IF best.distance = Undefined THEN BestNeighbor(-1, Infinity) ELSE best

findNearestNeighbor(d, vertex, visited) ==
  NearestScan(d, vertex, visited, 0, BestNeighbor(-1, Infinity))

\* the for loop of findFarthestNeighbor
RECURSIVE FarthestScan(_, _, _, _, _)
FarthestScan(d, vertex, visited, c, best) ==
  IF c >= Side(d) + 1 THEN best
  ELSE IF vertex = c \/ c \in visited THEN FarthestScan(d, vertex, visited, c + 1, best)
  ELSE IF GreaterEq(Cell(d, vertex, c), best.distance)
       THEN FarthestScan(d, vertex, visited, c + 1, BestNeighbor(c, Cell(d, vertex, c)))
       ELSE FarthestScan(d, vertex, visited, c + 1, best)

findFarthestNeighbor(d, vertex, visited) ==
  FarthestScan(d, vertex, visited, 0, BestNeighbor(-1, NegInfinity))

getNextBestNeighbor(d, nearest, node, visited) ==
  IF nearest THEN findNearestNeighbor(d, node, visited)
  ELSE findFarthestNeighbor(d, node, visited)

\* the while loop of nearestNeighborPath
RECURSIVE NearestNeighborLoop(_, _, _, _)
NearestNeighborLoop(d, stack, path, visited) ==
  IF Len(stack) = 0 THEN path
  ELSE LET current == stack[Len(stack)]
           popped == SubSeq(stack, 1, Len(stack) - 1)
           pushed == Append(path, current)
           next == findNearestNeighbor(d, current, visited).index
       IN IF next = -1 THEN pushed
          ELSE NearestNeighborLoop(d, Append(popped, next), pushed, visited \cup {current})

\* variant of nearestNeighborPath that omits the final reverse()
nearestNeighborPathUnreversed(d, isHamiltonianPath) ==
  IF isHamiltonianPath
  THEN LET path == NearestNeighborLoop(d, <<1>>, <<0>>, {1})
       IN Append(Tail(path), 0)
  ELSE NearestNeighborLoop(d, <<0>>, <<>>, {})

\* GreedyHeuristics.nearestNeighborPath: the raw index path
nearestNeighborPath(d, isHamiltonianPath) ==
  IF isHamiltonianPath
  THEN LET path == NearestNeighborLoop(d, <<1>>, <<0>>, {1})
       IN Reverse(Append(Tail(path), 0))
  ELSE NearestNeighborLoop(d, <<0>>, <<>>, {})

\* Array.prototype.sort with the comparator a.distance - b.distance: a stable
\* insertion sort; a comparator result that is not > 0 leaves the pair in place
RECURSIVE InsertByDistance(_, _)
InsertByDistance(sorted, x) ==
  IF Len(sorted) = 0 THEN <<x>>
  ELSE LET last == sorted[Len(sorted)]
       IN IF Less(Num(0), Minus(last.distance, x.distance))
          THEN Append(InsertByDistance(SubSeq(sorted, 1, Len(sorted) - 1), x), last)
          ELSE Append(sorted, x)

RECURSIVE SortPrefix(_, _)
SortPrefix(s, k) ==
  IF k = 0 THEN <<>> ELSE InsertByDistance(SortPrefix(s, k - 1), s[k])

SortByDistance(s) == SortPrefix(s, Len(s))

NullEdge == [vertexA |-> -1, vertexB |-> -1, weight |-> Undefined]

computeIncreaseInPathLength(d, edge, newNode) ==
  Minus(Plus(Cell(d, edge.vertexA, newNode), Cell(d, newNode, edge.vertexB)), edge.weight)

\* edges.forEach of findEdgeToReplace, from the edge path[i] -> path[i+1] on
RECURSIVE EdgeScan(_, _, _, _, _, _)
EdgeScan(d, path, newNeighbor, i, min, replaceEdge) ==
  IF i > Len(path) - 1 THEN replaceEdge
  ELSE LET edge == [vertexA |-> path[i], vertexB |-> path[i + 1],
                    weight |-> Cell(d, path[i], path[i + 1])]
           currentSubTourCost == computeIncreaseInPathLength(d, edge, newNeighbor)
       IN IF Less(currentSubTourCost, min)
          THEN EdgeScan(d, path, newNeighbor, i + 1, currentSubTourCost, edge)
          ELSE EdgeScan(d, path, newNeighbor, i + 1, min, replaceEdge)

\* variant of findEdgeToReplace that answers the first edge of the path
findEdgeToReplaceFirst(d, path, newNeighbor) ==
  [vertexA |-> path[1], vertexB |-> path[2], weight |-> Cell(d, path[1], path[2])]

findEdgeToReplace(d, path, newNeighbor) ==
  EdgeScan(d, path, newNeighbor, 1, Infinity, NullEdge)

\* variant of the splice that overwrites the vertex after vertexA
SpliceAfterOverwriting(path, vertexA, nextBestIndex) ==
  LET indexA == IndexOf(path, vertexA)
  IN SubSeq(path, 1, indexA) \o <<nextBestIndex>> \o SubSeq(path, indexA + 2, Len(path))

\* variant of the splice that puts the vertex after the last element
SpliceAtEnd(path, vertexA, nextBestIndex) == Append(path, nextBestIndex)

\* path = [...before, nextBestIndex, ...after], before ending at vertexA
SpliceAfter(path, vertexA, nextBestIndex) ==
  LET indexA == IndexOf(path, vertexA)
  IN SubSeq(path, 1, indexA) \o <<nextBestIndex>> \o SubSeq(path, indexA + 1, Len(path))

\* the outcome of a raw heuristic: the index path, or the error it throws
Raw(err, path) == [err |-> err, path |-> path]

\* the while loop of insertionPath
RECURSIVE InsertionLoop(_, _, _, _)
InsertionLoop(d, nearest, path, visited) ==
  IF Cardinality(visited) >= Side(d) THEN Raw("none", path)
  ELSE LET candidates ==
             SortByDistance([i \in 1..Len(path) |->
                               getNextBestNeighbor(d, nearest, path[i], visited)])
           nextBestIndex == IF nearest THEN candidates[1].index
                            ELSE candidates[Len(candidates)].index
       IN IF nextBestIndex \notin DOMAIN d THEN Raw("TypeError", path)
          ELSE LET replaceEdge == findEdgeToReplace(d, path, nextBestIndex)
               IN IF replaceEdge = NullEdge THEN Raw("BadInput", path)
                  ELSE InsertionLoop(d, nearest,
                                     SpliceAfter(path, replaceEdge.vertexA, nextBestIndex),
                                     visited \cup {nextBestIndex})

\* GreedyHeuristics.insertionPath: the raw index path
insertionPath(d, isHamiltonianPath, nearest) ==
  IF isHamiltonianPath
  THEN InsertionLoop(d, nearest, <<0, 1>>, {0, 1})
  ELSE LET next == getNextBestNeighbor(d, nearest, 0, {}).index
       IN InsertionLoop(d, nearest, <<0, next>>, {0, next})

\* the path and the visited set insertionPath enters its while loop with
InsertionStart(d, isHamiltonianPath, nearest) ==
  IF isHamiltonianPath THEN [path |-> <<0, 1>>, visited |-> {0, 1}]
  ELSE LET next == getNextBestNeighbor(d, nearest, 0, {}).index
       IN [path |-> <<0, next>>, visited |-> {0, next}]

\* the iterations of the while loop of insertionPath that splice a vertex in,
\* in order: the path and visited set an iteration starts from, the vertex and
\* the edge it picks, and the path it leaves
RECURSIVE InsertionSteps(_, _, _, _)
InsertionSteps(d, nearest, path, visited) ==
  IF Cardinality(visited) >= Side(d) THEN <<>>
  ELSE LET candidates ==
             SortByDistance([i \in 1..Len(path) |->
                               getNextBestNeighbor(d, nearest, path[i], visited)])
           nextBestIndex == IF nearest THEN candidates[1].index
                            ELSE candidates[Len(candidates)].index
       IN IF nextBestIndex \notin DOMAIN d THEN <<>>
          ELSE LET replaceEdge == findEdgeToReplace(d, path, nextBestIndex)
                   spliced == SpliceAfter(path, replaceEdge.vertexA, nextBestIndex)
               IN IF replaceEdge = NullEdge THEN <<>>
                  ELSE <<[path |-> path, visited |-> visited,
                          nextBestIndex |-> nextBestIndex, replaceEdge |-> replaceEdge,
                          spliced |-> spliced]>>
                       \o InsertionSteps(d, nearest, spliced, visited \cup {nextBestIndex})

nearestInsertionPath(d, isHamiltonianPath) == insertionPath(d, isHamiltonianPath, TRUE)

farthestInsertionPath(d, isHamiltonianPath) == insertionPath(d, isHamiltonianPath, FALSE)

(* ------------------------------------------------------------------- TSP *)

VARIABLES
  nodes,        \* this.nodes: the intermediate PathNodes, in their current order
  start,        \* this.start
  end,          \* this.end: a PathNode, or NoNode for null
  allNodes,     \* this.allNodes: index -> PathNode, as a function on 0..n-1
  provider,     \* what the distance provider answers for the pair (row, col)
  costMatrix,   \* this.costMatrix
  error,        \* this.error: a message, or NoError for undefined
  greedy,       \* whether this.greedy is set
  stochastic,   \* whether this.stochastic is set
  phase,        \* how far init() has come
  queryLog,     \* the distance-provider queries made so far, in order
  result,       \* what the latest call of a public path method did
  sa,           \* the run of Stochastic.simualtedAnnealing in progress
  floorPlan,    \* whether a floorplan was handed to the constructor
  reconstructPath, \* this.reconstructPath
  shortestPaths,   \* this.shortestPaths: whether it is defined, and its cells
  mst,          \* an MST / MSTHeuristics instance and what was last asked of it
  util          \* the arguments and the result of a call of util.sumPathCost

vars == <<nodes, start, end, allNodes, provider, costMatrix, error, greedy,
          stochastic, phase, queryLog, result, sa, floorPlan, reconstructPath,
          shortestPaths, mst, util>>

\* a PathNode: gridId identifies the location; uid 0 stands for undefined
PathNode(gridId, uid) == [gridId |-> gridId, uid |-> uid]
NoNode == PathNode(-1, -1)

NoError == "none"
UnreachableError == "Unreachable location encountered."
NotInitializedError == "Engine not initalized. Please call init() before computing path."
BadInputError == "Bad input. Encountered unreachable locations"
TypeErrorThrown == "TypeError"
ReconstructionNotStoredError ==
  "Path reconstruction data was not stored. Please pass parament 'reconstruct path' when creating TSP object"
NoFloorplanError == "Cannot reconstruct true path if no floorplan provided"

\* isHamiltonianPathProblem, of an end and a start
IsHamiltonian(e, s) == e # NoNode /\ e.gridId # s.gridId

isHamiltonianPathProblem == IsHamiltonian(end, start)

\* the constructor's allNodes, as a sequence
BuildAllNodes(s, e, ns) ==
  IF e # NoNode /\ IsHamiltonian(e, s) THEN <<s, e>> \o ns ELSE <<s>> \o ns

\* a sequence as a function on 0..Len-1, the way the code indexes arrays
ZeroBased(s) == [i \in 0..(Len(s) - 1) |-> s[i + 1]]

\* createNodeMatrix(fill)
createNodeMatrix(n, fill) == [r \in 0..(n - 1) |-> [c \in 0..(n - 1) |-> fill]]

\* the unordered pairs of indices below n
PairsBelow(n) == {p \in (0..(n - 1)) \X (0..(n - 1)) : p[1] < p[2]}

\* a distance provider: finite symmetric costs w, and the locations walled in
ProviderOf(n, w, blocked) ==
  [r \in 0..(n - 1) |-> [c \in 0..(n - 1) |->
     IF r = c THEN Num(0)
     ELSE IF r \in blocked \/ c \in blocked THEN Infinity
     ELSE Num(w[<<IF r < c THEN r ELSE c, IF r < c THEN c ELSE r>>])]]

\* PathResult.reconstruction: absent, or the route
NoReconstruction == [present |-> FALSE, route |-> <<>>]

NoResult ==
  [method |-> "none", kind |-> "none", msg |-> NoError, phase |-> "new",
   hadError |-> FALSE, path |-> <<>>, rawPath |-> <<>>, cost |-> Num(0), reads |-> {},
   reconstruction |-> NoReconstruction]

\* an MST instance as its constructor leaves it, with the argument of the call
\* to come; op is the latest method called, calls counts the calls of prims
NewMST(distances, isHamiltonianPath, kind, input) ==
  [kind |-> kind, op |-> "none", distances |-> distances,
   isHamiltonianPath |-> isHamiltonianPath, visited |-> {}, mstEdges |-> <<>>,
   calls |-> 0, graph |-> <<>>, matching |-> <<>>, input |-> input, output |-> <<>>,
   err |-> "none"]

\* no MST instance has been constructed
NoMST == NewMST(<<>>, FALSE, "none", <<>>)

\* a call of util.sumPathCost to come, with its arguments; sum is what it returns
NewUtil(rawPath, matrix) ==
  [op |-> "none", rawPath |-> rawPath, costMatrix |-> matrix, err |-> "none", sum |-> Num(0)]

\* util.sumPathCost is not called
NoUtil == NewUtil(<<>>, <<>>)

SAIdle == [pc |-> "idle"]

\* the state the constructor leaves, for its arguments and a distance provider
Constructed(ns, s, e, answers, floorplan, reconstruct) ==
  /\ floorPlan = floorplan
  /\ reconstructPath = reconstruct
  /\ shortestPaths = [defined |-> reconstruct,
                      cells |-> createNodeMatrix(Len(BuildAllNodes(s, e, ns)), <<>>)]
  /\ nodes = ns
  /\ start = s
  /\ end = e
  /\ allNodes = ZeroBased(BuildAllNodes(s, e, ns))
  /\ provider = answers
  /\ costMatrix = createNodeMatrix(Len(BuildAllNodes(s, e, ns)), Infinity)
  /\ error = NoError
  /\ greedy = FALSE
  /\ stochastic = FALSE
  /\ phase = "new"
  /\ queryLog = <<>>
  /\ result = NoResult
  /\ sa = SAIdle

EndKinds == {"none", "same", "distinct"}

\* the corners of the unit square in the order start, nodes[0], nodes[1],
\* nodes[2]: (0,0), (0,1), (1,1), (1,0)
SquareCorners == <<<<0, 0>>, <<0, 1>>, <<1, 1>>, <<1, 0>>>>

\* the integer square root of x
ISqrt(x) == CHOOSE r \in 0..x : r * r <= x /\ (r + 1) * (r + 1) > x

\* calculateEuclideanDistance of two locations, in cost units
Euclidean(a, b) ==
  ISqrt(Scale * Scale * ((a[1] - b[1]) * (a[1] - b[1]) + (a[2] - b[2]) * (a[2] - b[2])))

\* what the Euclidean metric answers between the corners of the unit square
SquareProvider ==
  [r \in 0..3 |-> [c \in 0..3 |-> Num(Euclidean(SquareCorners[r + 1], SquareCorners[c + 1]))]]

\* the state after construction of the closed tour over the unit square:
\* start (0,0), nodes (0,1), (1,1), (1,0), Euclidean metric, no floorplan
InitSquare ==
  /\ Constructed([i \in 1..3 |-> PathNode(i, i + 1)], PathNode(0, 1), NoNode,
                 SquareProvider, FALSE, FALSE)
  /\ mst = NoMST
  /\ util = NoUtil

\* the state after construction: k intermediate nodes, no end / an end at the
\* start's location / an end elsewhere, nodes with or without a uid, and a
\* provider: symmetric finite costs, or, over a floorplan, one location
\* walled in (the finite answers then never reach the matrix, and neither does
\* the answer for start <-> end of a Hamiltonian path: one value stands for all);
\* a floorplan or none, route reconstruction asked for or not
Init ==
  \/ \E k \in 0..MaxNodes, endKind \in EndKinds, withUid \in BOOLEAN :
       LET uidOf(g) == IF withUid THEN g + 1 ELSE 0
           s == PathNode(0, uidOf(0))
           e == IF endKind = "none" THEN NoNode
                ELSE IF endKind = "same" THEN PathNode(0, uidOf(0))
                ELSE PathNode(1, uidOf(1))
           ns == [i \in 1..k |-> PathNode(k + 2 - i, uidOf(k + 2 - i))]
           n == Len(BuildAllNodes(s, e, ns))
       IN \E w \in [PairsBelow(n) -> {1, MaxWeight}], blocked \in SUBSET (0..(n - 1)),
             floorplan \in BOOLEAN, reconstruct \in BOOLEAN :
            /\ Cardinality(blocked) <= 1
            /\ blocked # {} => \A p \in PairsBelow(n) : w[p] = 1
            /\ blocked # {} => floorplan
            /\ IsHamiltonian(e, s) => w[<<0, 1>>] = 1
            /\ Constructed(ns, s, e, ProviderOf(n, w, blocked), floorplan, reconstruct)
            /\ mst = NoMST
            /\ util = NoUtil
  \/ InitSquare

\* the injective placements of n locations on the cells 0..n-1 of a corridor
Placements(n) ==
  {f \in [0..(n - 1) -> 0..(n - 1)] : \A i, j \in 0..(n - 1) : f[i] = f[j] => i = j}

\* calculateManhattenDistance of two locations of the corridor
Manhattan(a, b) == IF a < b THEN b - a ELSE a - b

\* the state after construction when every location lies on a corridor: the
\* provider answers the Manhattan distance, or Infinity for a walled-in location
InitAnnealing ==
  \E k \in 0..MaxNodes, endKind \in EndKinds :
    LET n == IF endKind = "distinct" THEN k + 2 ELSE k + 1
    IN \E at \in Placements(n), blocked \in SUBSET (0..(n - 1)), reconstruct \in BOOLEAN :
         LET s == PathNode(at[0], at[0] + 1)
             e == IF endKind = "none" THEN NoNode
                  ELSE IF endKind = "same" THEN s
                  ELSE PathNode(at[1], at[1] + 1)
             ns == [i \in 1..k |-> PathNode(at[n - k - 1 + i], at[n - k - 1 + i] + 1)]
         IN /\ Cardinality(blocked) <= 1
            /\ blocked # {} => \A i \in 0..(n - 1) : at[i] = i
            /\ Constructed(ns, s, e,
                 [r \in 0..(n - 1) |-> [c \in 0..(n - 1) |->
                    IF r = c THEN Num(0)
                    ELSE IF r \in blocked \/ c \in blocked THEN Infinity
                    ELSE Num(Manhattan(at[r], at[c]))]],
                 TRUE, reconstruct)
            /\ mst = NoMST
            /\ util = NoUtil

(* ------------------------------------------------------------- init() *)

\* coordinates: every (row, col), row by row
Coordinates(n) == [i \in 1..(n * n) |-> <<(i - 1) \div n, (i - 1) % n>>]

\* the route aStar.search hands back when asked to reconstruct it: the cells
\* between the two locations are left out, its two ends stand for the route
SearchPath(row, col) == <<allNodes[row], allNodes[col]>>

\* calculateShortestPathSegment(row, col): the promise it returns; path is the
\* route, or the empty sequence for undefined
calculateShortestPathSegment(row, col) ==
  IF row = col
  THEN [row |-> row, col |-> col, estimatedCost |-> Num(0), queried |-> FALSE,
        rejected |-> FALSE, path |-> <<>>]
  ELSE LET estimatedCost == provider[row][col]
       IN [row |-> row, col |-> col, estimatedCost |-> estimatedCost, queried |-> TRUE,
           rejected |-> (estimatedCost = Infinity),
           path |-> IF floorPlan /\ reconstructPath /\ shortestPaths.defined
                    THEN SearchPath(row, col) ELSE <<>>]

\* coordinates.map(...): every segment is computed before Promise.all is awaited
Segments(n) ==
  [i \in 1..(n * n) |-> calculateShortestPathSegment(Coordinates(n)[i][1], Coordinates(n)[i][2])]

\* the provider queries among a list of segments, in order
RECURSIVE QueriesOf(_)
QueriesOf(segs) ==
  IF Len(segs) = 0 THEN <<>>
  ELSE LET q == segs[1]
       IN (IF q.queried THEN <<[row |-> q.row, col |-> q.col, cost |-> q.estimatedCost]>>
           ELSE <<>>) \o QueriesOf(Tail(segs))

AnyRejected(segs) == \E i \in 1..Len(segs) : segs[i].rejected

\* variant of the matrix fill without the Hamiltonian-path overwrite
WrittenMatrixUnforced(n, segs, hamiltonian) ==
  [r \in 0..(n - 1) |-> [c \in 0..(n - 1) |-> segs[r * n + c + 1].estimatedCost]]

\* results.forEach(...) followed by the Hamiltonian-path overwrite
WrittenMatrix(n, segs, hamiltonian) ==
  [r \in 0..(n - 1) |-> [c \in 0..(n - 1) |->
     IF hamiltonian /\ ((r = 0 /\ c = 1) \/ (r = 1 /\ c = 0)) THEN Infinity
     ELSE segs[r * n + c + 1].estimatedCost]]

\* this.shortestPaths after results.forEach(...)
StoredPaths(n, segs) ==
  IF reconstructPath /\ shortestPaths.defined
  THEN [shortestPaths EXCEPT
          !.cells = [r \in 0..(n - 1) |-> [c \in 0..(n - 1) |-> segs[r * n + c + 1].path]]]
  ELSE shortestPaths

\* init() is called: calculateDistances runs up to its await
InitCall ==
  /\ phase = "new"
  /\ sa.pc = "idle"
  /\ LET segs == Segments(Side(allNodes))
     IN /\ queryLog' = queryLog \o QueriesOf(segs)
        /\ error' = IF AnyRejected(segs) THEN UnreachableError ELSE error
  /\ phase' = "pending"
  /\ UNCHANGED <<floorPlan, reconstructPath, shortestPaths, mst, util,
                 nodes, start, end, allNodes, provider, costMatrix, greedy, stochastic,
                 result, sa>>

\* Promise.all resolved: calculateDistances writes the matrix and returns
CalculateDistancesResume ==
  /\ phase = "pending"
  /\ sa.pc = "idle"
  /\ ~AnyRejected(Segments(Side(allNodes)))
  /\ costMatrix' = WrittenMatrix(Side(allNodes), Segments(Side(allNodes)),
                                 isHamiltonianPathProblem)
  /\ shortestPaths' = StoredPaths(Side(allNodes), Segments(Side(allNodes)))
  /\ phase' = "computed"
  /\ UNCHANGED <<floorPlan, reconstructPath, mst, util,
                 nodes, start, end, allNodes, provider, error, greedy, stochastic,
                 queryLog, result, sa>>

\* init() resumes after awaiting calculateDistances
InitResume ==
  /\ phase = "computed"
  /\ sa.pc = "idle"
  /\ greedy' = TRUE
  /\ stochastic' = TRUE
  /\ phase' = "ready"
  /\ UNCHANGED <<floorPlan, reconstructPath, shortestPaths, mst, util,
                 nodes, start, end, allNodes, provider, costMatrix, error, queryLog,
                 result, sa>>

\* Promise.all rejected: calculateDistances and init() reject
InitReject ==
  /\ phase = "pending"
  /\ sa.pc = "idle"
  /\ AnyRejected(Segments(Side(allNodes)))
  /\ phase' = "failed"
  /\ UNCHANGED <<floorPlan, reconstructPath, shortestPaths, mst, util,
                 nodes, start, end, allNodes, provider, costMatrix, error, greedy,
                 stochastic, queryLog, result, sa>>

(* ------------------------------------------------- path-method helpers *)

\* the outcome of a cost computation: the sum, or the error it throws
Cost(err, cost) == [err |-> err, cost |-> cost]

\* the while loop of estimateTotalPathCost / computeCost, from position i on;
\* indexing the matrix with a row that does not exist throws a TypeError
RECURSIVE SumLoop(_, _, _, _)
SumLoop(d, path, i, sum) ==
  IF i + 1 > Len(path) THEN Cost("none", sum)
  ELSE IF path[i] \notin DOMAIN d THEN Cost(TypeErrorThrown, sum)
  ELSE SumLoop(d, path, i + 1, Plus(sum, Cell(d, path[i], path[i + 1])))

\* variant of estimateTotalPathCost whose loop stops one edge early
estimateTotalPathCostShort(d, path) ==
  IF Len(path) = 1 THEN Cost("none", Num(path[1]))
  ELSE SumLoop(d, SubSeq(path, 1, Len(path) - 1), 1, Num(0))

\* TSP.estimateTotalPathCost, once the stored error has been ruled out
estimateTotalPathCost(d, path) ==
  IF Len(path) = 1 THEN Cost("none", Num(path[1]))
  ELSE SumLoop(d, path, 1, Num(0))

\* the matrix cells estimateTotalPathCost reads
CellsRead(d, path) ==
  IF Len(path) = 1 THEN {}
  ELSE {<<path[i], path[i + 1]>> : i \in {j \in 1..(Len(path) - 1) :
                                            \A h \in 1..j : path[h] \in DOMAIN d}}

\* TSP.createPathNodeArray
createPathNodeArray(rawPath) ==
  [i \in 1..Len(rawPath) |->
     IF rawPath[i] \in DOMAIN allNodes THEN allNodes[rawPath[i]] ELSE NoNode]

Thrown(method, msg) ==
  [method |-> method, kind |-> "error", msg |-> msg, phase |-> phase,
   hadError |-> (error # NoError), path |-> <<>>, rawPath |-> <<>>, cost |-> Num(0),
   reads |-> {}, reconstruction |-> NoReconstruction]

Returned(method, path, rawPath, cost, reads) ==
  [method |-> method, kind |-> "path", msg |-> NoError, phase |-> phase,
   hadError |-> (error # NoError), path |-> path, rawPath |-> rawPath, cost |-> cost,
   reads |-> reads, reconstruction |-> NoReconstruction]

\* the while loop of reconstructTruePath, from position i on; spreading a
\* cell that does not exist throws a TypeError
RECURSIVE ReconstructLoop(_, _, _)
ReconstructLoop(path, i, route) ==
  IF i + 1 > Len(path) THEN [err |-> "none", route |-> route]
  ELSE IF path[i] \notin DOMAIN shortestPaths.cells
          \/ path[i + 1] \notin DOMAIN shortestPaths.cells[path[i]]
       THEN [err |-> TypeErrorThrown, route |-> route]
  ELSE ReconstructLoop(path, i + 1, route \o shortestPaths.cells[path[i]][path[i + 1]])

\* TSP.reconstructTruePath: the Error built when there is no floorplan is not
\* thrown, and the loop runs
reconstructTruePath(path) ==
  IF error # NoError THEN [err |-> error, route |-> <<>>]
  ELSE IF ~reconstructPath \/ ~shortestPaths.defined
       THEN [err |-> ReconstructionNotStoredError, route |-> <<>>]
  ELSE ReconstructLoop(path, 1, <<>>)

\* if (this.reconstructPath) result.reconstruction = this.reconstructTruePath(rawPath)
WithReconstruction(res, rawPath) ==
  IF ~reconstructPath THEN res
  ELSE LET reconstruction == reconstructTruePath(rawPath)
       IN IF reconstruction.err # "none" THEN Thrown(res.method, reconstruction.err)
          ELSE [res EXCEPT !.reconstruction = [present |-> TRUE,
                                               route |-> reconstruction.route]]

\* TSP.computeGreedyPath, given what the raw heuristic did
computeGreedyPath(method, raw) ==
  IF raw.err # "none"
  THEN Thrown(method, IF raw.err = "BadInput" THEN BadInputError ELSE TypeErrorThrown)
  ELSE LET rawPath == IF ~isHamiltonianPathProblem THEN Append(raw.path, 0) ELSE raw.path
           estimate == estimateTotalPathCost(costMatrix, rawPath)
       IN IF estimate.err # "none" THEN Thrown(method, TypeErrorThrown)
          ELSE WithReconstruction(
                 Returned(method, createPathNodeArray(rawPath), rawPath, estimate.cost,
                          CellsRead(costMatrix, rawPath)), rawPath)

GreedyMethods == {"nearestNeighborPath", "nearestInsertionPath", "farthestInsertionPath"}

\* the raw heuristic a public greedy method hands to computeGreedyPath
RawHeuristic(method, d, hamiltonian) ==
  IF method = "nearestNeighborPath" THEN Raw("none", nearestNeighborPath(d, hamiltonian))
  ELSE IF method = "nearestInsertionPath" THEN nearestInsertionPath(d, hamiltonian)
  ELSE farthestInsertionPath(d, hamiltonian)

\* variant of the greedy methods without the check of the stored error
GreedyCallIgnoringError(method) ==
  IF ~greedy THEN Thrown(method, NotInitializedError)
  ELSE computeGreedyPath(method, RawHeuristic(method, costMatrix, isHamiltonianPathProblem))

\* variant of the greedy methods without the check that init() has completed
GreedyCallUninitialized(method) ==
  IF error # NoError THEN Thrown(method, error)
  ELSE computeGreedyPath(method, RawHeuristic(method, costMatrix, isHamiltonianPathProblem))

\* TSP.nearestNeighborPath / nearestInsertionPath / farthestInsertionPath
GreedyCall(method) ==
  IF error # NoError THEN Thrown(method, error)
  ELSE IF ~greedy THEN Thrown(method, NotInitializedError)
  ELSE computeGreedyPath(method, RawHeuristic(method, costMatrix, isHamiltonianPathProblem))

CallNearestNeighborPath ==
  /\ sa.pc = "idle"
  /\ result' = GreedyCall("nearestNeighborPath")
  /\ UNCHANGED <<floorPlan, reconstructPath, shortestPaths, mst, util,
                 nodes, start, end, allNodes, provider, costMatrix, error, greedy,
                 stochastic, phase, queryLog, sa>>

CallNearestInsertionPath ==
  /\ sa.pc = "idle"
  /\ result' = GreedyCall("nearestInsertionPath")
  /\ UNCHANGED <<floorPlan, reconstructPath, shortestPaths, mst, util,
                 nodes, start, end, allNodes, provider, costMatrix, error, greedy,
                 stochastic, phase, queryLog, sa>>

CallFarthestInsertionPath ==
  /\ sa.pc = "idle"
  /\ result' = GreedyCall("farthestInsertionPath")
  /\ UNCHANGED <<floorPlan, reconstructPath, shortestPaths, mst, util,
                 nodes, start, end, allNodes, provider, costMatrix, error, greedy,
                 stochastic, phase, queryLog, sa>>

(* ------------------------------------------------------ alphanumericSort *)

\* the comparator of alphanumericSort; identifiers compare as numbers
CompareNodes(nodeA, nodeB) ==
  IF nodeA.uid # 0 /\ nodeB.uid # 0 THEN nodeA.uid - nodeB.uid
  ELSE nodeA.gridId - nodeB.gridId

RECURSIVE InsertNode(_, _)
InsertNode(sorted, x) ==
  IF Len(sorted) = 0 THEN <<x>>
  ELSE LET last == sorted[Len(sorted)]
       IN IF CompareNodes(last, x) > 0
          THEN Append(InsertNode(SubSeq(sorted, 1, Len(sorted) - 1), x), last)
          ELSE Append(sorted, x)

RECURSIVE SortNodesPrefix(_, _)
SortNodesPrefix(s, k) ==
  IF k = 0 THEN <<>> ELSE InsertNode(SortNodesPrefix(s, k - 1), s[k])

\* this.nodes.sort(...)
SortNodes(s) == SortNodesPrefix(s, Len(s))

\* this.allNodes.findIndex(current => current.uid === node.uid)
FindIndexByUid(node) ==
  IF \E i \in DOMAIN allNodes : allNodes[i].uid = node.uid
  THEN CHOOSE i \in DOMAIN allNodes :
         allNodes[i].uid = node.uid /\ \A j \in 0..(i - 1) : allNodes[j].uid # node.uid
  ELSE -1

\* TSP.alphanumericSort: the result, given the sorted nodes
AlphanumericSortCall(sorted) ==
  LET path == IF end # NoNode /\ isHamiltonianPathProblem
              THEN <<start>> \o sorted \o <<end>>
              ELSE <<start>> \o sorted \o <<start>>
      rawPath == [i \in 1..Len(path) |-> FindIndexByUid(path[i])]
      estimate == estimateTotalPathCost(costMatrix, rawPath)
  IN IF estimate.err # "none" THEN Thrown("alphanumericSort", TypeErrorThrown)
     ELSE Returned("alphanumericSort", path, rawPath, estimate.cost,
                   CellsRead(costMatrix, rawPath))

\* variant of alphanumericSort in which allNodes shares the array it sorts
CallAlphanumericSortAliasing ==
  /\ sa.pc = "idle"
  /\ IF error # NoError
     THEN /\ result' = Thrown("alphanumericSort", error)
          /\ nodes' = nodes
          /\ allNodes' = allNodes
     ELSE /\ nodes' = SortNodes(nodes)
          /\ allNodes' = ZeroBased(BuildAllNodes(start, end, SortNodes(nodes)))
          /\ result' = AlphanumericSortCall(SortNodes(nodes))
  /\ UNCHANGED <<floorPlan, reconstructPath, shortestPaths, mst, util,
                 start, end, provider, costMatrix, error, greedy, stochastic,
                 phase, queryLog, sa>>

CallAlphanumericSort ==
  /\ sa.pc = "idle"
  /\ IF error # NoError
     THEN /\ result' = Thrown("alphanumericSort", error)
          /\ nodes' = nodes
     ELSE /\ nodes' = SortNodes(nodes)
          /\ result' = AlphanumericSortCall(SortNodes(nodes))
  /\ UNCHANGED <<floorPlan, reconstructPath, shortestPaths, mst, util,
                 start, end, allNodes, provider, costMatrix, error, greedy, stochastic,
                 phase, queryLog, sa>>

(* ------------------------------------------------------------ Stochastic *)

\* the default of maxAttemptsPerTemp
DefaultMaxAttempts == 1500
\* the default of successesPerTemp is this many times the path length
DefaultSuccessesFactor == 10

\* the values generateRandomIndex(min, max) can return:
\* Math.floor(Math.random() * (max - min + 1) + min) with Math.random() in [0, 1)
generateRandomIndex(min, max) == IF max >= min THEN min..max ELSE (max + 1)..min

\* the values generateAllowableIndex can return
generateAllowableIndex(d) == generateRandomIndex(1, Side(d) - 2)

\* generateSegmentIndices, for the two indices drawn
SegmentIndices(d, index1, drawn2) ==
  LET index2 == IF index1 = drawn2
                THEN (IF index1 # Side(d) - 2 THEN index1 + 1 ELSE index1 - 1)
                ELSE drawn2
  IN [index1 |-> IF index1 < index2 THEN index1 ELSE index2,
      index2 |-> IF index1 < index2 THEN index2 ELSE index1]

\* the pairs generateSegmentIndices can return
generateSegmentIndices(d) ==
  {SegmentIndices(d, a, b) : a \in generateAllowableIndex(d), b \in generateAllowableIndex(d)}

\* path[i] of a JavaScript array (0-based); -1 stands for undefined
ArrayGet(path, i) == IF i + 1 \in 1..Len(path) THEN path[i + 1] ELSE -1

\* path[i] = v of a JavaScript array (0-based): writing past the end grows it
ArraySet(path, i, v) ==
  IF i + 1 \in 1..Len(path) THEN [path EXCEPT ![i + 1] = v]
  ELSE path \o [k \in 1..(i - Len(path)) |-> -1] \o <<v>>

swap(path, index1, index2) ==
  ArraySet(ArraySet(path, index1, ArrayGet(path, index2)), index2, ArrayGet(path, index1))

RECURSIVE reverseSegment(_, _, _)
reverseSegment(path, left, right) ==
  IF left < right THEN reverseSegment(swap(path, left, right), left + 1, right - 1)
  ELSE path

\* the first k elements, and the rest, of an array (splice clamps its bounds)
Take(path, k) == SubSeq(path, 1, IF k < Len(path) THEN k ELSE Len(path))
Drop(path, k) == SubSeq(path, (IF k < Len(path) THEN k ELSE Len(path)) + 1, Len(path))

\* the arrays transportSegment can leave in path, over the insertion points drawn
transportSegment(path, index1, index2) ==
  LET sLength == index2 - index1
      segment == Take(Drop(path, index1), sLength)
      rest == Take(path, index1) \o Drop(path, index1 + sLength)
  IN {LET insertionPoint == IF drawn = index1 THEN index1 + 1 ELSE drawn
      IN Take(rest, insertionPoint) \o segment \o Drop(rest, insertionPoint)
        : drawn \in generateRandomIndex(1, Len(rest) - 2)}

\* the paths generateNeighbor can return
generateNeighbor(d, path) ==
  UNION {transportSegment(path, s.index1, s.index2) \cup
         {reverseSegment(path, s.index1, s.index2)} : s \in generateSegmentIndices(d)}

\* Stochastic.computeCost
computeCost(d, path) == SumLoop(d, path, 1, Num(0))

\* the initial path of simualtedAnnealing
InitialPath(d, isHamiltonianPath) ==
  LET identity == [i \in 1..Side(d) |-> i - 1]
  IN IF isHamiltonianPath THEN <<0>> \o SubSeq(identity, 3, Len(identity)) \o <<1>>
     ELSE Append(identity, 0)

\* whether the move to a neighbour of cost currentCost can be taken, and
\* whether it can be declined, over the draws of ns.uniform(0, 1) in [0, 1)
CanAccept(currentCost, prevCost) ==
  \/ Less(currentCost, prevCost)
  \/ ~IsNaNLike(Minus(currentCost, prevCost))

CanDecline(currentCost, prevCost) ==
  /\ ~Less(currentCost, prevCost)
  /\ Minus(currentCost, prevCost) # Num(0)

\* variant of the loop body that records every accepted path as the best
AnnealingStepBestFollowsCurrent(run, currentPath, currentCost, accept) ==
  LET prevPath == IF accept THEN currentPath ELSE run.prevPath
      prevCost == IF accept THEN currentCost ELSE run.prevCost
      successes == run.successes + 1
      attempts == run.attempts + 1
      cool == successes = run.target \/ attempts = run.max
  IN [run EXCEPT !.prevPath = prevPath,
                 !.prevCost = prevCost,
                 !.bestPath = prevPath,
                 !.bestCost = prevCost,
                 !.successes = IF cool THEN 0 ELSE successes,
                 !.attempts = IF cool THEN 0 ELSE attempts,
                 !.coolings = IF cool THEN run.coolings + 1 ELSE run.coolings]

\* variant of the loop body that never counts an attempt
AnnealingStepWithoutAttempts(run, currentPath, currentCost, accept) ==
  LET prevPath == IF accept THEN currentPath ELSE run.prevPath
      prevCost == IF accept THEN currentCost ELSE run.prevCost
      better == Less(prevCost, run.bestCost)
      successes == IF better THEN run.successes + 1 ELSE run.successes
      cool == successes = run.target
  IN [run EXCEPT !.prevPath = prevPath,
                 !.prevCost = prevCost,
                 !.bestPath = IF better THEN prevPath ELSE run.bestPath,
                 !.bestCost = IF better THEN prevCost ELSE run.bestCost,
                 !.successes = IF cool THEN 0 ELSE successes,
                 !.coolings = IF cool THEN run.coolings + 1 ELSE run.coolings]

\* the state of the loop after one iteration with the given neighbour;
\* improving is history, not a variable of the code: the number of moves since
\* the previous cooling step that lowered the cost of the current path
AnnealingStep(run, currentPath, currentCost, accept) ==
  LET prevPath == IF accept THEN currentPath ELSE run.prevPath
      prevCost == IF accept THEN currentCost ELSE run.prevCost
      better == Less(prevCost, run.bestCost)
      successes == IF better THEN run.successes + 1 ELSE run.successes
      attempts == run.attempts + 1
      cool == successes = run.target \/ attempts = run.max
      improving == IF Less(prevCost, run.prevCost) THEN run.improving + 1 ELSE run.improving
  IN [run EXCEPT !.prevPath = prevPath,
                 !.prevCost = prevCost,
                 !.bestPath = IF better THEN prevPath ELSE run.bestPath,
                 !.bestCost = IF better THEN prevCost ELSE run.bestCost,
                 !.successes = IF cool THEN 0 ELSE successes,
                 !.attempts = IF cool THEN 0 ELSE attempts,
                 !.coolings = IF cool THEN run.coolings + 1 ELSE run.coolings,
                 !.improving = IF cool THEN 0 ELSE improving]

\* the loop state simualtedAnnealing starts from
AnnealingStart(d, isHamiltonianPath, successesPerTemp, maxAttemptsPerTemp) ==
  LET initialPath == InitialPath(d, isHamiltonianPath)
      cost == computeCost(d, initialPath)
  IN [pc |-> "loop", prevPath |-> initialPath, prevCost |-> cost.cost,
      bestPath |-> initialPath, bestCost |-> cost.cost,
      target |-> IF successesPerTemp # 0 THEN successesPerTemp
                 ELSE DefaultSuccessesFactor * Len(initialPath),
      max |-> IF maxAttemptsPerTemp # 0 THEN maxAttemptsPerTemp ELSE DefaultMaxAttempts,
      successes |-> 0, attempts |-> 0, coolings |-> 0, improving |-> 0]

\* TSP.simulatedAnnealing is called: the guards, then the set-up of the loop
CallSimulatedAnnealing ==
  /\ sa.pc = "idle"
  /\ IF error # NoError
     THEN result' = Thrown("simulatedAnnealing", error) /\ sa' = sa
     ELSE IF ~stochastic
     THEN result' = Thrown("simulatedAnnealing", NotInitializedError) /\ sa' = sa
     ELSE /\ \E successesPerTemp \in 0..MaxSuccesses, maxAttemptsPerTemp \in 1..MaxAttempts :
               sa' = AnnealingStart(costMatrix, isHamiltonianPathProblem,
                                    successesPerTemp, maxAttemptsPerTemp)
          /\ result' = [NoResult EXCEPT !.method = "simulatedAnnealing",
                                        !.kind = "running", !.phase = phase]
  /\ UNCHANGED <<floorPlan, reconstructPath, shortestPaths, mst, util,
                 nodes, start, end, allNodes, provider, costMatrix, error, greedy,
                 stochastic, phase, queryLog>>

\* one iteration of the while loop, currentTemp > minTemp
AnnealingIterate ==
  /\ sa.pc = "loop"
  /\ sa.coolings < CoolSteps
  /\ \E currentPath \in generateNeighbor(costMatrix, sa.prevPath) :
       LET current == computeCost(costMatrix, currentPath)
       IN IF current.err # "none"
          THEN /\ result' = Thrown("simulatedAnnealing", TypeErrorThrown)
               /\ sa' = SAIdle
          ELSE /\ \E accept \in BOOLEAN :
                    /\ accept => CanAccept(current.cost, sa.prevCost)
                    /\ ~accept => CanDecline(current.cost, sa.prevCost)
                    /\ sa' = AnnealingStep(sa, currentPath, current.cost, accept)
               /\ result' = result
  /\ UNCHANGED <<floorPlan, reconstructPath, shortestPaths, mst, util,
                 nodes, start, end, allNodes, provider, costMatrix, error, greedy,
                 stochastic, phase, queryLog>>

\* the loop ends; TSP.simulatedAnnealing builds its PathResult
AnnealingReturn ==
  /\ sa.pc = "loop"
  /\ sa.coolings >= CoolSteps
  /\ result' = WithReconstruction(
                  Returned("simulatedAnnealing", createPathNodeArray(sa.bestPath),
                           sa.bestPath, sa.bestCost, {}), sa.bestPath)
  /\ sa' = SAIdle
  /\ UNCHANGED <<floorPlan, reconstructPath, shortestPaths, mst, util,
                 nodes, start, end, allNodes, provider, costMatrix, error, greedy,
                 stochastic, phase, queryLog>>

Next ==
  \/ InitCall
  \/ CalculateDistancesResume
  \/ InitResume
  \/ InitReject
  \/ CallNearestNeighborPath
  \/ CallNearestInsertionPath
  \/ CallFarthestInsertionPath
  \/ CallAlphanumericSort

Spec == Init /\ [][Next]_vars

NextAnnealing ==
  \/ Next
  \/ CallSimulatedAnnealing
  \/ AnnealingIterate
  \/ AnnealingReturn

SpecAnnealing == InitAnnealing /\ [][NextAnnealing]_vars

\* simualtedAnnealing is synchronous code: once entered, its loop keeps
\* iterating and its return statement is executed when the loop ends
SpecAnnealingFair ==
  SpecAnnealing /\ WF_vars(AnnealingIterate) /\ WF_vars(AnnealingReturn)

(* ------------------------------------------------------------------ MST *)

\* an Edge
Edge(vertexA, vertexB, weight) == [vertexA |-> vertexA, vertexB |-> vertexB, weight |-> weight]

\* the scan of getNearestReachableEdge over the pairs (a, b), row by row, from
\* the k-th pair on
RECURSIVE ReachableScan(_, _, _, _, _)
ReachableScan(d, numVertices, visited, k, minEdge) ==
  IF k >= numVertices * numVertices THEN minEdge
  ELSE LET a == k \div numVertices
           b == k % numVertices
       IN IF a \notin visited \/ b \in visited
          THEN ReachableScan(d, numVertices, visited, k + 1, minEdge)
          ELSE IF Less(d[a][b], minEdge.weight)
               THEN ReachableScan(d, numVertices, visited, k + 1, Edge(a, b, d[a][b]))
               ELSE ReachableScan(d, numVertices, visited, k + 1, minEdge)

\* variant of the scan in which the last of the equally near edges wins
RECURSIVE ReachableScanLast(_, _, _, _, _)
ReachableScanLast(d, numVertices, visited, k, minEdge) ==
  IF k >= numVertices * numVertices THEN minEdge
  ELSE LET a == k \div numVertices
           b == k % numVertices
       IN IF a \notin visited \/ b \in visited
          THEN ReachableScanLast(d, numVertices, visited, k + 1, minEdge)
          ELSE IF LessEq(d[a][b], minEdge.weight)
               THEN ReachableScanLast(d, numVertices, visited, k + 1, Edge(a, b, d[a][b]))
               ELSE ReachableScanLast(d, numVertices, visited, k + 1, minEdge)

getNearestReachableEdgeLast(d, numVertices, visited) ==
  ReachableScanLast(d, numVertices, visited, 0, Edge(-1, -1, Infinity))

\* getNearestReachableEdge
getNearestReachableEdge(d, numVertices, visited) ==
  ReachableScan(d, numVertices, visited, 0, Edge(-1, -1, Infinity))

\* the while loop of prims
RECURSIVE PrimsLoop(_, _, _, _, _)
PrimsLoop(d, numVertices, visited, current, edgePath) ==
  IF Cardinality(visited) < numVertices - 1
  THEN LET marked == visited \cup {current}
           minReachableEdge == getNearestReachableEdge(d, numVertices, marked)
       IN PrimsLoop(d, numVertices, marked, minReachableEdge.vertexB,
                    Append(edgePath, minReachableEdge))
  ELSE [visited |-> visited, mstEdges |-> edgePath]

\* variant of prims that starts from vertex 1
primsFromOne(d, visited) == PrimsLoop(d, Side(d), visited, 1, <<>>)

\* MST.prims on an instance whose visited set is the given one
prims(d, visited) == PrimsLoop(d, Side(d), visited, 0, <<>>)

\* addToTree
addToTree(tree, vertex, edge) ==
  IF vertex \in DOMAIN tree THEN [tree EXCEPT ![vertex] = Append(@, edge)]
  ELSE tree @@ (vertex :> <<edge>>)

\* path.reduce(...) of convertEdgePathToTree, from the i-th edge on
RECURSIVE TreeOfPath(_, _, _, _)
TreeOfPath(path, undirected, i, tree) ==
  IF i > Len(path) THEN tree
  ELSE LET currentEdge == path[i]
           added == addToTree(tree, currentEdge.vertexA, currentEdge)
           both == IF undirected
                   THEN addToTree(added, currentEdge.vertexB,
                                  Edge(currentEdge.vertexB, currentEdge.vertexA,
                                       currentEdge.weight))
                   ELSE added
       IN TreeOfPath(path, undirected, i + 1, both)

\* edges.sort((e1, e2) => e2.weight - e1.weight): a stable sort; a comparator
\* result of NaN counts as 0
RECURSIVE InsertEdgeByWeight(_, _)
InsertEdgeByWeight(sorted, x) ==
  IF Len(sorted) = 0 THEN <<x>>
  ELSE LET last == sorted[Len(sorted)]
       IN IF Less(last.weight, x.weight)
          THEN Append(InsertEdgeByWeight(SubSeq(sorted, 1, Len(sorted) - 1), x), last)
          ELSE Append(sorted, x)

RECURSIVE SortEdgesPrefix(_, _)
SortEdgesPrefix(edges, k) ==
  IF k = 0 THEN <<>> ELSE InsertEdgeByWeight(SortEdgesPrefix(edges, k - 1), edges[k])

\* MST.prioritizeLowWeightEdges: the lists of the keys 0..treeSize-1 are sorted
prioritizeLowWeightEdges(tree) ==
  LET treeSize == Cardinality(DOMAIN tree)
  IN [v \in DOMAIN tree |->
        IF v \in 0..(treeSize - 1) THEN SortEdgesPrefix(tree[v], Len(tree[v])) ELSE tree[v]]

\* edges.sort by the number of children of vertexB, most children first
RECURSIVE InsertEdgeByChildren(_, _, _)
InsertEdgeByChildren(tree, sorted, x) ==
  LET children(e) == IF e.vertexB \in DOMAIN tree THEN Len(tree[e.vertexB]) ELSE 0
  IN IF Len(sorted) = 0 THEN <<x>>
     ELSE LET last == sorted[Len(sorted)]
          IN IF children(x) > children(last)
             THEN Append(InsertEdgeByChildren(tree, SubSeq(sorted, 1, Len(sorted) - 1), x),
                         last)
             ELSE Append(sorted, x)

RECURSIVE SortChildrenPrefix(_, _, _)
SortChildrenPrefix(tree, edges, k) ==
  IF k = 0 THEN <<>>
  ELSE InsertEdgeByChildren(tree, SortChildrenPrefix(tree, edges, k - 1), edges[k])

\* MST.prioritizeLeafNodes
prioritizeLeafNodes(tree) ==
  LET treeSize == Cardinality(DOMAIN tree)
  IN [v \in DOMAIN tree |->
        IF v \in 0..(treeSize - 1) THEN SortChildrenPrefix(tree, tree[v], Len(tree[v]))
        ELSE tree[v]]

\* MST.convertEdgePathToTree; edgeSort is "none", "PRIORITIZE_LEAF_NODES" or
\* "BY_WEIGHT"
convertEdgePathToTree(path, undirected, edgeSort) ==
  LET tree == TreeOfPath(path, undirected, 1, <<>>)
  IN IF edgeSort = "PRIORITIZE_LEAF_NODES" THEN prioritizeLeafNodes(tree)
     ELSE IF edgeSort = "BY_WEIGHT" THEN prioritizeLowWeightEdges(tree)
     ELSE tree

\* MST.oddDegreeVertices, as a set
oddDegreeVertices(tree) == {v \in DOMAIN tree : Len(tree[v]) % 2 # 0}

\* the matchings of a set of vertices: sets of disjoint pairs
Matchings(vertices) ==
  {m \in SUBSET {p \in vertices \X vertices : p[1] < p[2]} :
     \A p, q \in m : p # q => {p[1], p[2]} \cap {q[1], q[2]} = {}}

IsPerfect(m, vertices) == UNION {{p[1], p[2]} : p \in m} = vertices

\* the adjacency list getMinCostPerfectMatching builds from blossom's answer
MatchingList(d, m) ==
  LET matched == UNION {{p[1], p[2]} : p \in m}
      mate(v) == CHOOSE u \in matched : <<v, u>> \in m \/ <<u, v>> \in m
  IN [v \in matched |-> <<Edge(v, mate(v), Cell(d, v, mate(v)))>>]

\* MST.getMinCostPerfectMatching: the answers the blossom library can give. Over
\* finite weights it answers a perfect matching (any of them is allowed for);
\* over a weight that is not finite any matching is allowed for
getMinCostPerfectMatching(d, vertices) ==
  LET finite == \A u, v \in vertices : u # v => IsFinite(Cell(d, u, v))
  IN {MatchingList(d, m) : m \in {x \in Matchings(vertices) :
                                     finite => IsPerfect(x, vertices)}}

\* variant of the loop that skips a matching edge the tree already holds
MergeMatchingWithoutParallel(tree, perfectMatching) ==
  [v \in DOMAIN tree \cup DOMAIN perfectMatching |->
     (IF v \in DOMAIN tree THEN tree[v] ELSE <<>>)
       \o (IF v \in DOMAIN perfectMatching
              /\ ~(v \in DOMAIN tree /\ perfectMatching[v][1] \in Range(tree[v]))
           THEN perfectMatching[v] ELSE <<>>)]

\* the loop of christofides that adds the matching's edges to the tree
MergeMatching(tree, perfectMatching) ==
  [v \in DOMAIN tree \cup DOMAIN perfectMatching |->
     (IF v \in DOMAIN tree THEN tree[v] ELSE <<>>)
       \o (IF v \in DOMAIN perfectMatching THEN perfectMatching[v] ELSE <<>>)]

RECURSIVE FilterEdges(_, _)
FilterEdges(edges, vertex) ==
  IF Len(edges) = 0 THEN <<>>
  ELSE IF edges[1].vertexB # vertex THEN <<edges[1]>> \o FilterEdges(Tail(edges), vertex)
  ELSE FilterEdges(Tail(edges), vertex)

\* the while loop of findEulerianTour; current is <<>> for null, <<v>> for v;
\* reading the list of a vertex the graph has no key for throws a TypeError
RECURSIVE EulerLoop(_, _, _, _)
EulerLoop(clone, stack, tour, current) ==
  IF Len(stack) = 0 THEN [err |-> "none", tour |-> tour]
  ELSE LET popped == Len(current) = 0
           cur == IF popped THEN stack[Len(stack)] ELSE current[1]
           rest == IF popped THEN SubSeq(stack, 1, Len(stack) - 1) ELSE stack
       IN IF cur \notin DOMAIN clone THEN [err |-> TypeErrorThrown, tour |-> tour]
          ELSE IF Len(clone[cur]) = 0
               THEN EulerLoop(clone, rest, Append(tour, cur), <<>>)
          ELSE LET nextNeighbor == clone[cur][1].vertexB
               IN IF nextNeighbor \notin DOMAIN clone
                  THEN [err |-> TypeErrorThrown, tour |-> tour]
                  ELSE LET removed == [clone EXCEPT ![cur] = FilterEdges(@, nextNeighbor)]
                           both == [removed EXCEPT ![nextNeighbor] = FilterEdges(@, cur)]
                       IN EulerLoop(both, Append(rest, cur), tour, <<nextNeighbor>>)

\* MST.findEulerianTour
findEulerianTour(eulerGraph) == EulerLoop(eulerGraph, <<2>>, <<0, 1, 2>>, <<0>>)

\* MST.createHamiltonianPath
RECURSIVE createHamiltonianPathKeepingLast(_)
createHamiltonianPathKeepingLast(tour) ==
  IF Len(tour) = 0 THEN <<>>
  ELSE LET path == createHamiltonianPathKeepingLast(Tail(tour))
           current == Head(tour)
       IN IF current \in Range(path) THEN path ELSE <<current>> \o path

RECURSIVE createHamiltonianPath(_)
createHamiltonianPath(tour) ==
  IF Len(tour) = 0 THEN <<>>
  ELSE LET path == createHamiltonianPath(SubSeq(tour, 1, Len(tour) - 1))
           current == tour[Len(tour)]
       IN IF current \in Range(path) THEN path ELSE Append(path, current)

\* MSTHeuristics.christofides, for the matching the library answered
christofides(d, isHamiltonianPath, mstEdges, perfectMatching) ==
  LET tree == convertEdgePathToTree(mstEdges, TRUE, "BY_WEIGHT")
      merged == prioritizeLowWeightEdges(MergeMatching(tree, perfectMatching))
      walk == findEulerianTour(merged)
      path == createHamiltonianPath(walk.tour)
  IN [err |-> walk.err, graph |-> merged, tour |-> walk.tour,
      path |-> IF walk.err # "none" THEN <<>>
               ELSE IF ~isHamiltonianPath THEN path
               ELSE Reverse(Append(SubSeq(path, 3, Len(path)), 1))]

\* the matrix of a closed tour over n vertices with the symmetric weights w
ClosedMatrix(n, w) == ProviderOf(n, w, {})

\* the matrix calculateDistances of the dummy-node variant leaves for a
\* Hamiltonian path: index 0 the dummy, 1 the start, 2 the end; the cells
\* between the dummy and the other nodes keep the constructor's Infinity
DummyMatrix(n, w) ==
  [r \in 0..(n - 1) |-> [c \in 0..(n - 1) |->
     IF r = c THEN Num(0)
     ELSE IF {r, c} \in {{0, 1}, {0, 2}} THEN Num(-1)
     ELSE IF {r, c} = {1, 2} \/ r = 0 \/ c = 0 THEN Infinity
     ELSE Num(w[<<IF r < c THEN r ELSE c, IF r < c THEN c ELSE r>>])]]

\* the largest number of vertices of a matrix or graph handed to an MST
MaxVertices == MaxNodes + 2

\* the adjacency list of the multigraph over 0..k-1 with mult[<<u, v>>] edges
\* between u and v, each of weight 1; the list of a vertex runs over its
\* neighbours in order, and a vertex without an edge has no key
RECURSIVE EdgesTo(_, _, _, _)
EdgesTo(mult, v, u, k) ==
  IF u >= k THEN <<>>
  ELSE LET m == IF u = v THEN 0
                ELSE mult[<<IF u < v THEN u ELSE v, IF u < v THEN v ELSE u>>]
       IN [i \in 1..m |-> Edge(v, u, Num(1))] \o EdgesTo(mult, v, u + 1, k)

AdjacencyOf(mult, k) ==
  [v \in {x \in 0..(k - 1) : Len(EdgesTo(mult, x, 0, k)) > 0} |-> EdgesTo(mult, v, 0, k)]

\* the vertices of graph reached from the vertices in seen
RECURSIVE ReachableFrom(_, _)
ReachableFrom(graph, seen) ==
  LET more == seen \cup UNION {{graph[v][i].vertexB : i \in 1..Len(graph[v])} : v \in seen}
  IN IF more = seen THEN seen ELSE ReachableFrom(graph, more)

IsConnected(graph) ==
  /\ DOMAIN graph # {}
  /\ ReachableFrom(graph, {CHOOSE v \in DOMAIN graph : TRUE}) = DOMAIN graph

AllEven(graph) == \A v \in DOMAIN graph : Len(graph[v]) % 2 = 0

\* the connected multigraphs over at most MaxVertices vertices, with up to two
\* edges between a pair, in which every vertex has even degree
EulerGraphs ==
  {graph \in {AdjacencyOf(mult, MaxVertices) : mult \in [PairsBelow(MaxVertices) -> 0..2]} :
     IsConnected(graph) /\ AllEven(graph)}

\* the index sequences of length up to n over 0..n-2
RECURSIVE SequencesUpTo(_, _)
SequencesUpTo(values, n) ==
  IF n = 0 THEN {<<>>}
  ELSE LET shorter == SequencesUpTo(values, n - 1)
       IN shorter \cup {Append(t, v) : t \in shorter, v \in values}

\* an MST instance after construction: over a matrix of a closed tour or of a
\* Hamiltonian path, for prims and christofides; or with an Eulerian multigraph
\* to hand to findEulerianTour; or with an index sequence to hand to
\* createHamiltonianPath
InitMST ==
  /\ Constructed(<<>>, PathNode(0, 1), NoNode, ClosedMatrix(1, <<>>), FALSE, FALSE)
  /\ \/ \E n \in 1..MaxVertices : \E w \in [PairsBelow(n) -> {1, MaxWeight}] :
          \/ mst = NewMST(ClosedMatrix(n, w), FALSE, "matrix", <<>>)
          \/ n >= 3 /\ mst = NewMST(DummyMatrix(n, w), TRUE, "matrix", <<>>)
     \/ \E graph \in EulerGraphs :
          mst = NewMST(ClosedMatrix(1, <<>>), FALSE, "graph", graph)
     \/ \E tour \in SequencesUpTo(0..(MaxVertices - 2), MaxVertices) :
          mst = NewMST(ClosedMatrix(1, <<>>), FALSE, "tour", tour)
  /\ util = NoUtil

TSPUnchanged ==
  UNCHANGED <<nodes, start, end, allNodes, provider, costMatrix, error, greedy,
              stochastic, phase, queryLog, result, sa, floorPlan, reconstructPath,
              shortestPaths, util>>

\* how often prims is called on one instance
MaxPrimsCalls == 2

\* MST.prims is called (the constructor of MSTHeuristics makes the first call)
Prims ==
  /\ mst.kind = "matrix"
  /\ mst.calls < MaxPrimsCalls
  /\ LET run == prims(mst.distances, mst.visited)
     IN mst' = [mst EXCEPT !.op = "prims", !.visited = run.visited,
                           !.mstEdges = run.mstEdges, !.calls = @ + 1,
                           !.graph = <<>>, !.matching = <<>>, !.input = <<>>,
                           !.output = <<>>, !.err = "none"]
  /\ TSPUnchanged

\* MSTHeuristics.christofides is called
Christofides ==
  /\ mst.kind = "matrix"
  /\ mst.calls >= 1
  /\ LET tree == convertEdgePathToTree(mst.mstEdges, TRUE, "BY_WEIGHT")
     IN \E perfectMatching \in getMinCostPerfectMatching(mst.distances,
                                                         oddDegreeVertices(tree)) :
          LET run == christofides(mst.distances, mst.isHamiltonianPath, mst.mstEdges,
                                  perfectMatching)
          IN mst' = [mst EXCEPT !.op = "christofides", !.graph = run.graph,
                                !.matching = perfectMatching, !.input = tree,
                                !.output = run.path, !.err = run.err]
  /\ TSPUnchanged

\* MST.findEulerianTour is called on a graph
FindEulerianTour ==
  /\ mst.kind = "graph"
  /\ mst.op = "none"
  /\ LET run == findEulerianTour(mst.input)
     IN mst' = [mst EXCEPT !.op = "findEulerianTour", !.graph = mst.input,
                           !.output = run.tour, !.err = run.err]
  /\ TSPUnchanged

\* MST.createHamiltonianPath is called on an index sequence, or on what the
\* previous call returned
CreateHamiltonianPath ==
  /\ mst.kind = "tour"
  /\ \/ /\ mst.op = "none"
        /\ mst' = [mst EXCEPT !.op = "createHamiltonianPath",
                              !.output = createHamiltonianPath(mst.input)]
     \/ /\ mst.op = "createHamiltonianPath"
        /\ mst' = [mst EXCEPT !.op = "createHamiltonianPath again",
                              !.graph = mst.output,
                              !.output = createHamiltonianPath(mst.output)]
  /\ TSPUnchanged

NextMST == Prims \/ Christofides \/ FindEulerianTour \/ CreateHamiltonianPath

SpecMST == InitMST /\ [][NextMST]_vars

(* ------------------------------------------------------------------ util *)

\* the for loop of sumPathCost, from i on (0-based, as in the code)
RECURSIVE SumPathLoop(_, _, _, _)
SumPathLoop(rawPath, matrix, i, sum) ==
  IF ~(i < Len(rawPath) - 2) THEN Cost("none", sum)
  ELSE LET vertexA == rawPath[i + 1]
           vertexB == rawPath[i + 2]
       IN IF vertexA \notin DOMAIN matrix THEN Cost(TypeErrorThrown, sum)
          ELSE SumPathLoop(rawPath, matrix, i + 1, Plus(sum, Cell(matrix, vertexA, vertexB)))

\* util.sumPathCost
sumPathCost(rawPath, matrix) ==
  IF Len(rawPath) = 1 THEN Cost("none", Num(rawPath[1]))
  ELSE SumPathLoop(rawPath, matrix, 0, Num(0))

\* the arguments of a call of sumPathCost: a matrix of symmetric finite costs
\* and a non-empty path over its indices
InitUtil ==
  /\ Constructed(<<>>, PathNode(0, 1), NoNode, ClosedMatrix(1, <<>>), FALSE, FALSE)
  /\ mst = NoMST
  /\ \E n \in 2..(MaxVertices - 1) : \E w \in [PairsBelow(n) -> {1, MaxWeight}] :
       \E rawPath \in SequencesUpTo(0..(n - 1), MaxVertices) :
         /\ Len(rawPath) >= 1
         /\ util = NewUtil(rawPath, ClosedMatrix(n, w))

\* sumPathCost(rawPath, costMatrix) is called
SumPathCost ==
  /\ util.op = "none"
  /\ util.rawPath # <<>>
  /\ LET run == sumPathCost(util.rawPath, util.costMatrix)
     IN util' = [util EXCEPT !.op = "sumPathCost", !.err = run.err, !.sum = run.cost]
  /\ UNCHANGED <<nodes, start, end, allNodes, provider, costMatrix, error, greedy,
                 stochastic, phase, queryLog, result, sa, floorPlan, reconstructPath,
                 shortestPaths, mst>>

NextUtil == SumPathCost

SpecUtil == InitUtil /\ [][NextUtil]_vars

(* ================================================================ claims *)

\* the index sequence the raw heuristic returned, before computeGreedyPath
\* appended the closing 0 of a closed tour
RawPathOf(r) ==
  IF isHamiltonianPathProblem THEN r.rawPath
  ELSE SubSeq(r.rawPath, 1, Len(r.rawPath) - 1)

\* every index 0..n-1 appears exactly once in p, and nothing else does
IsPermutationOfIndices(p, n) ==
  /\ Len(p) = n
  /\ \A v \in 0..(n - 1) : Cardinality({i \in 1..Len(p) : p[i] = v}) = 1

\* sum of d[p[i]][p[i+1]] over the consecutive pairs of p
RECURSIVE ConsecutiveSum(_, _)
ConsecutiveSum(d, p) ==
  IF Len(p) < 2 THEN Num(0)
  ELSE Plus(d[p[1]][p[2]], ConsecutiveSum(d, Tail(p)))

AllMethods == GreedyMethods \cup {"simulatedAnnealing"}

\* C1: on a matrix over n >= 2 vertices, the index sequence nearestNeighborPath
\* returns holds every index 0..n-1 exactly once, closed tour or Hamiltonian path.
C1_NearestNeighborIsPermutation ==
  (result.method = "nearestNeighborPath" /\ result.kind = "path" /\ Side(costMatrix) >= 2)
    => IsPermutationOfIndices(RawPathOf(result), Side(costMatrix))

\* C2: on a matrix over n >= 2 vertices, nearestInsertionPath and
\* farthestInsertionPath each return (they do not throw) an index sequence that
\* holds every index 0..n-1 exactly once and no index outside 0..n-1.
C2_InsertionIsPermutation ==
  (result.method \in {"nearestInsertionPath", "farthestInsertionPath"}
     /\ result.phase = "ready" /\ Side(costMatrix) >= 2)
    => /\ result.kind = "path"
       /\ IsPermutationOfIndices(RawPathOf(result), Side(costMatrix))

\* C2 witness: farthest insertion returned a Hamiltonian path through two
\* intermediate nodes
C2_Witness ==
  /\ result.method = "farthestInsertionPath"
  /\ result.kind = "path"
  /\ isHamiltonianPathProblem
  /\ Len(result.rawPath) = 4

\* C3: with a start, a distinct end and exactly one intermediate node, every
\* heuristic returns the three nodes start, intermediate, end, in that order.
C3_ThreeNodePath ==
  (isHamiltonianPathProblem /\ Len(nodes) = 1 /\ result.method \in AllMethods
     /\ result.phase = "ready" /\ result.kind # "running")
    => /\ result.kind = "path"
       /\ result.path = <<start, nodes[1], end>>

\* C4: once init() has failed on an unreachable pair, error stays set, and every
\* later call of a public path method throws that error and returns no PathResult.
C4_StickyError ==
  (phase # "new" /\ AnyRejected(Segments(Side(allNodes))))
    => /\ error = UnreachableError
       /\ (result.method # "none" /\ result.phase # "new")
            => (result.kind = "error" /\ result.msg = UnreachableError)

\* C4 witness: after init() was rejected, simulatedAnnealing was called and threw
C4_Witness ==
  /\ phase = "failed"
  /\ result.method = "simulatedAnnealing"
  /\ result.phase = "failed"
  /\ result.kind = "error"

\* C5: with no stored error, a heuristic called before init() has completed
\* throws the not-initialized error and returns no PathResult.
C5_NotInitialized ==
  (result.method \in AllMethods /\ result.phase # "ready" /\ ~result.hadError)
    => (result.kind = "error" /\ result.msg = NotInitializedError)

\* C5 witness: nearestInsertionPath was called while init() was still pending,
\* the matrix already written, and threw
C5_Witness ==
  /\ result.method = "nearestInsertionPath"
  /\ result.phase = "computed"
  /\ ~result.hadError
  /\ result.kind = "error"

\* C6: no public path method reads a cell of the cost matrix before
\* calculateDistances has written every cell.
C6_NoReadBeforeWritten ==
  result.reads # {} => result.phase \in {"computed", "ready"}

\* C7: once the distance provider has answered Infinity for a pair, no further
\* pair is queried.
C7_NoQueryAfterFailure ==
  \A i \in 1..Len(queryLog) : \A j \in 1..Len(queryLog) :
    (i < j) => queryLog[i].cost # Infinity

\* C8: after init() has succeeded the matrix is square with side |nodes|+1
\* (closed tour) or |nodes|+2 (Hamiltonian path: index 0 the start, index 1 the
\* end), its diagonal is 0, and every other cell is finite except [0][1] and
\* [1][0] of a Hamiltonian path, which are Infinity; the problem is a Hamiltonian
\* path exactly when an end is supplied whose identifier differs from the start's.
C8_MatrixShape ==
  phase \in {"computed", "ready"} =>
    LET n == Side(costMatrix)
        hamiltonian == end # NoNode /\ end.gridId # start.gridId
    IN /\ DOMAIN costMatrix = 0..(n - 1)
       /\ \A r \in 0..(n - 1) : DOMAIN costMatrix[r] = 0..(n - 1)
       /\ n = Len(nodes) + (IF hamiltonian THEN 2 ELSE 1)
       /\ allNodes[0] = start
       /\ hamiltonian => allNodes[1] = end
       /\ \A i \in 1..Len(nodes) : \E r \in (n - Len(nodes))..(n - 1) : allNodes[r] = nodes[i]
       /\ \A r, c \in 0..(n - 1) :
            IF r = c THEN costMatrix[r][c] = Num(0)
            ELSE IF hamiltonian /\ {r, c} = {0, 1} THEN costMatrix[r][c] = Infinity
            ELSE IsFinite(costMatrix[r][c])

\* C8 witness: init() has completed on a Hamiltonian path problem with two
\* intermediate nodes
C8_Witness ==
  /\ phase = "ready"
  /\ isHamiltonianPathProblem
  /\ Len(nodes) = 2

C10_Endpoints ==
  (result.method \in GreedyMethods /\ result.kind = "path"
     /\ (isHamiltonianPathProblem => Len(nodes) >= 1))
    => LET last == Len(result.rawPath)
       IN /\ result.rawPath[1] = 0
          /\ result.path[1] = start
          /\ IF isHamiltonianPathProblem
             THEN result.rawPath[last] = 1 /\ result.path[last] = end
             ELSE result.rawPath[last] = 0 /\ result.path[last] = start

\* C10 witness: nearestNeighborPath returned a path for a Hamiltonian path
\* problem with two intermediate nodes
C10_Witness ==
  /\ result.method = "nearestNeighborPath"
  /\ result.kind = "path"
  /\ isHamiltonianPathProblem
  /\ Len(nodes) = 2

\* C11: whatever the random draws, the path generateNeighbor returns has the
\* length, the first element and the last element of the path it was given,
\* matrices over 2 or 3 vertices included.
C11_NeighborKeepsEndpoints ==
  sa.pc = "loop" =>
    \A neighbor \in generateNeighbor(costMatrix, sa.prevPath) :
      /\ Len(neighbor) = Len(sa.prevPath)
      /\ neighbor[1] = sa.prevPath[1]
      /\ neighbor[Len(neighbor)] = sa.prevPath[Len(sa.prevPath)]

\* C12: while the annealing loop runs, bestCost is the cost of bestPath
\* computed from the matrix, and no iteration increases bestCost.
C12_BestCostMonotone ==
  /\ [](sa.pc = "loop" => computeCost(costMatrix, sa.bestPath) = Cost("none", sa.bestCost))
  /\ [][(sa.pc = "loop" /\ sa'.pc = "loop") => ~Less(sa.bestCost, sa'.bestCost)]_vars

\* C12 witness: the loop has found a path cheaper than the initial one while
\* the current path is costlier than the best
C12_Witness ==
  /\ sa.pc = "loop"
  /\ Less(sa.bestCost, computeCost(costMatrix,
                                   InitialPath(costMatrix, isHamiltonianPathProblem)).cost)
  /\ Less(sa.bestCost, sa.prevCost)

\* C13: with a positive maxAttemptsPerTemp every run of simualtedAnnealing
\* ends, whatever the random draws: the attempts counter forces a cooling step
\* within maxAttemptsPerTemp iterations, and after finitely many cooling steps
\* the temperature is at or below minTemp.
C13_AnnealingTerminates == (sa.pc = "loop") ~> (sa.pc = "idle")

\* C13 witness: the last cooling step was forced by the attempts counter, no
\* better path having been found, and the loop is about to end
C13_Witness ==
  /\ sa.pc = "loop"
  /\ sa.coolings = CoolSteps
  /\ sa.max = MaxAttempts
  /\ sa.bestPath = InitialPath(costMatrix, isHamiltonianPathProblem)

\* the matrix has a finite weight off the diagonal everywhere
AllFinite(d) == \A r, c \in DOMAIN d : r # c => IsFinite(d[r][c])

\* the vertices attached to the tree before the k-th edge of the list
AttachedBefore(edges, k) == {0} \cup {edges[i].vertexB : i \in 1..(k - 1)}

\* prims has run once on the instance, over a matrix of n >= 2 vertices with
\* finite weights
FreshPrims ==
  /\ mst.kind = "matrix"
  /\ mst.calls = 1
  /\ Side(mst.distances) >= 2
  /\ AllFinite(mst.distances)

\* C14: on a fresh instance over n >= 2 vertices with finite weights, prims
\* yields n-1 edges; in list order each edge leaves vertex 0 or an endpoint of
\* an earlier edge and reaches a vertex no earlier edge attached; together they
\* span all n vertices.
C14_PrimsSpanningTree ==
  FreshPrims =>
    LET n == Side(mst.distances)
        edges == mst.mstEdges
    IN /\ Len(edges) = n - 1
       /\ \A k \in 1..Len(edges) :
            /\ edges[k].vertexA \in AttachedBefore(edges, k)
            /\ edges[k].vertexB \in (0..(n - 1)) \ AttachedBefore(edges, k)
       /\ AttachedBefore(edges, Len(edges) + 1) = 0..(n - 1)

\* C14 witness: prims has built a tree over four vertices in which some edge
\* leaves a vertex other than 0
C14_Witness ==
  /\ FreshPrims
  /\ mst.op = "prims"
  /\ Side(mst.distances) = 4
  /\ \E k \in 1..Len(mst.mstEdges) : mst.mstEdges[k].vertexA # 0

\* the sets of n-1 pairs that connect the vertices 0..n-1
SpanningTrees(n) ==
  {tree \in SUBSET PairsBelow(n) :
     /\ Cardinality(tree) = n - 1
     /\ ReachableFrom([v \in 0..(n - 1) |->
                         LET others == {u \in 0..(n - 1) : <<u, v>> \in tree \/ <<v, u>> \in tree}
                         IN [i \in 1..Cardinality(others) |->
                               Edge(v, CHOOSE u \in others :
                                      Cardinality({x \in others : x < u}) = i - 1, Num(1))]],
                      {0}) = 0..(n - 1)}

RECURSIVE PairsWeight(_, _)
PairsWeight(d, pairs) ==
  IF pairs = {} THEN 0
  ELSE LET p == CHOOSE x \in pairs : TRUE
       IN d[p[1]][p[2]].v + PairsWeight(d, pairs \ {p})

RECURSIVE EdgesWeight(_)
EdgesWeight(edges) ==
  IF Len(edges) = 0 THEN 0 ELSE edges[1].weight.v + EdgesWeight(Tail(edges))

\* C15: over a symmetric matrix with finite non-negative weights the edges of
\* prims weigh in total as little as any spanning tree of the complete graph,
\* and each edge is, among the lightest edges from an attached vertex a to an
\* unattached vertex b, the one with the lowest a and then the lowest b.
C15_PrimsMinimal ==
  FreshPrims =>
    LET n == Side(mst.distances)
        d == mst.distances
        edges == mst.mstEdges
    IN /\ \A tree \in SpanningTrees(n) : EdgesWeight(edges) <= PairsWeight(d, tree)
       /\ \A k \in 1..Len(edges) :
            LET attached == AttachedBefore(edges, k)
                chosen == edges[k]
            IN \A a \in attached : \A b \in (0..(n - 1)) \ attached :
                 /\ chosen.weight = d[chosen.vertexA][chosen.vertexB]
                 /\ chosen.weight.v <= d[a][b].v
                 /\ (chosen.weight.v = d[a][b].v) =>
                      (chosen.vertexA < a \/ (chosen.vertexA = a /\ chosen.vertexB <= b))

\* C15 witness: prims chose between two equally light edges that leave
\* different attached vertices
C15_Witness ==
  /\ FreshPrims
  /\ mst.op = "prims"
  /\ \E k \in 1..Len(mst.mstEdges) :
       \E a \in AttachedBefore(mst.mstEdges, k) :
         \E b \in (0..(Side(mst.distances) - 1)) \ AttachedBefore(mst.mstEdges, k) :
           /\ a # mst.mstEdges[k].vertexA
           /\ mst.distances[a][b] = mst.mstEdges[k].weight

\* C16: in christofides the odd-degree vertices of the undirected tree are even
\* in number, and once the edges of a perfect matching over them are merged in,
\* parallel edges kept, every vertex of the multigraph has an even number of
\* outgoing edges.
C16_EvenDegrees ==
  (mst.op = "christofides" /\ mst.calls = 1) =>
    LET odd == oddDegreeVertices(mst.input)
    IN /\ Cardinality(odd) % 2 = 0
       /\ (DOMAIN mst.matching = odd) => AllEven(mst.graph)

\* C16 witness: a perfect matching over four odd-degree vertices was merged in,
\* one of its edges parallel to an edge of the tree
C16_Witness ==
  /\ mst.op = "christofides"
  /\ mst.calls = 1
  /\ Cardinality(oddDegreeVertices(mst.input)) = 4
  /\ DOMAIN mst.matching = oddDegreeVertices(mst.input)
  /\ \E v \in DOMAIN mst.matching : mst.matching[v][1] \in Range(mst.input[v])

\* the number of edges from u to v in an adjacency list
Multiplicity(graph, u, v) ==
  IF u \in DOMAIN graph THEN Cardinality({i \in 1..Len(graph[u]) : graph[u][i].vertexB = v})
  ELSE 0

RECURSIVE DegreeSum(_, _)
DegreeSum(graph, vertices) ==
  IF vertices = {} THEN 0
  ELSE LET v == CHOOSE x \in vertices : TRUE
       IN Len(graph[v]) + DegreeSum(graph, vertices \ {v})

\* C17: for a connected multigraph whose vertices all have even degree,
\* parallel edges included, findEulerianTour returns a closed walk: consecutive
\* vertices of the tour are joined by an edge of the graph, and every undirected
\* edge is traversed exactly as often as the graph holds it.
C17_EulerianTour ==
  mst.op = "findEulerianTour" =>
    LET graph == mst.graph
        tour == mst.output
        steps == 1..(Len(tour) - 1)
    IN /\ mst.err = "none"
       /\ Len(tour) = DegreeSum(graph, DOMAIN graph) \div 2 + 1
       /\ tour[1] = tour[Len(tour)]
       /\ \A i \in steps : Multiplicity(graph, tour[i], tour[i + 1]) > 0
       /\ \A u, v \in DOMAIN graph :
            u < v => Cardinality({i \in steps : {tour[i], tour[i + 1]} = {u, v}})
                       = Multiplicity(graph, u, v)

FirstIndex(tour, v) == CHOOSE i \in 1..Len(tour) : tour[i] = v /\ \A j \in 1..(i - 1) : tour[j] # v

\* C18: createHamiltonianPath(t) holds each distinct vertex of t exactly once,
\* in the order of the vertices' first occurrences in t; its length is the
\* number of distinct vertices of t, and applying it to its own result returns
\* that result unchanged.
C18_HamiltonianPathDedupes ==
  /\ mst.op = "createHamiltonianPath" =>
       LET tour == mst.input
           path == mst.output
       IN /\ Len(path) = Cardinality(Range(tour))
          /\ Range(path) = Range(tour)
          /\ \A i, j \in 1..Len(path) :
               i < j => FirstIndex(tour, path[i]) < FirstIndex(tour, path[j])
  /\ mst.op = "createHamiltonianPath again" => mst.output = mst.graph

C18_Witness ==
  /\ mst.op = "createHamiltonianPath again"
  /\ Len(mst.input) = MaxVertices
  /\ Len(mst.output) = 2
  /\ mst.input[1] = mst.input[3]

\* C19: MSTHeuristics.christofides returns every non-dummy vertex exactly
\* once: for a closed tour a permutation of 0..n-1 that begins with 0, and for
\* a path under the dummy-node convention a sequence over 1..n-1 without
\* repeats that begins with the start vertex 1 and ends with the end vertex 2.
C19_ChristofidesVisitsAll ==
  (mst.op = "christofides" /\ mst.calls = 1) =>
    LET n == Side(mst.distances)
        path == mst.output
    IN /\ mst.err = "none"
       /\ Len(path) = Cardinality(Range(path))
       /\ IF mst.isHamiltonianPath
          THEN /\ Range(path) = 1..(n - 1)
               /\ path[1] = 1
               /\ path[Len(path)] = 2
          ELSE /\ Range(path) = 0..(n - 1)
               /\ path[1] = 0

\* C20: on a TSP constructed with reconstructPath = true and no floorplan, a
\* heuristic called after init() has succeeded raises the
\* reconstruction-unavailable error; it does not return a PathResult.
C20_ReconstructionNeedsFloorplan ==
  (/\ reconstructPath
   /\ ~floorPlan
   /\ result.method \in AllMethods
   /\ result.phase = "ready"
   /\ ~result.hadError)
    => /\ result.kind = "error"
       /\ result.msg \in {NoFloorplanError, ReconstructionNotStoredError}

\* C21: on the closed tour over the unit square (start (0,0), nodes (0,1),
\* (1,1), (1,0), Euclidean metric, no floorplan) nearestNeighborPath returns a
\* tour of total cost 4 around the perimeter: every two consecutive nodes of
\* the path are one unit apart, none are diagonal corners.
C21_UnitSquarePerimeter ==
  (/\ provider = SquareProvider
   /\ result.method = "nearestNeighborPath"
   /\ result.phase = "ready")
    => /\ result.kind = "path"
       /\ result.cost = Num(4 * Scale)
       /\ Len(result.path) = 5
       /\ \A i \in 1..(Len(result.path) - 1) :
            Euclidean(SquareCorners[result.path[i].gridId + 1],
                      SquareCorners[result.path[i + 1].gridId + 1]) = Scale
       /\ {result.path[i] : i \in 1..4} = Range(BuildAllNodes(start, end, nodes))

C21_Witness ==
  /\ provider = SquareProvider
  /\ result.method = "nearestNeighborPath"
  /\ result.phase = "ready"
  /\ result.rawPath = <<0, 3, 2, 1, 0>>

\* every list of the adjacency list runs from its lightest edge to its heaviest
AscendingByWeight(tree) ==
  \A v \in DOMAIN tree : \A i, j \in 1..Len(tree[v]) :
    i < j => LessEq(tree[v][i].weight, tree[v][j].weight)

\* C22: the tree convertEdgePathToTree builds under the by-weight policy, and
\* the merged multigraph after prioritizeLowWeightEdges is applied again, hold
\* every vertex's outgoing edges in ascending order of weight, so that the
\* first edge of a list, the one findEulerianTour follows, is a cheapest one.
C22_EdgesAscendingByWeight ==
  (mst.op = "christofides" /\ mst.calls = 1 /\ AllFinite(mst.distances)) =>
    /\ AscendingByWeight(mst.input)
    /\ AscendingByWeight(mst.graph)

\* C23: in the annealing loop the temperature is multiplied by coolingRate in
\* exactly those iterations after which the number of improving moves since the
\* previous cooling step (accepted neighbours cheaper than the current path)
\* has reached successesPerTemp or the number of attempts has reached
\* maxAttemptsPerTemp; both counters are then 0 again, and otherwise the
\* temperature stays as it is.
C23_CoolingSchedule ==
  [][(sa.pc = "loop" /\ sa'.pc = "loop") =>
       LET improved == Less(sa'.prevCost, sa.prevCost)
           improvingMoves == IF improved THEN sa.improving + 1 ELSE sa.improving
           attempted == sa.attempts + 1
           cooled == sa'.coolings # sa.coolings
       IN /\ cooled <=> (improvingMoves = sa.target \/ attempted = sa.max)
          /\ cooled => (sa'.coolings = sa.coolings + 1
                          /\ sa'.successes = 0 /\ sa'.attempts = 0)
          /\ ~cooled => sa'.attempts = attempted]_vars

\* the iterations insertionPath went through in the latest call
LatestInsertionSteps ==
  LET nearest == result.method = "nearestInsertionPath"
      from == InsertionStart(costMatrix, isHamiltonianPathProblem, nearest)
  IN InsertionSteps(costMatrix, nearest, from.path, from.visited)

\* C24: every iteration of insertionPath inserts the unvisited vertex whose
\* distance to some vertex of the path is the least (nearest mode) or the
\* greatest (farthest mode) of all distances between a path vertex and an
\* unvisited vertex, and splices it between the adjacent pair (a, b) of the path
\* for which dist(a,new) + dist(new,b) - dist(a,b) is least; on a matrix that is
\* finite between non-reserved vertices every remaining vertex is inserted and
\* the 'Bad input' error is not raised.
C24_InsertionChoosesBest ==
  (result.method \in {"nearestInsertionPath", "farthestInsertionPath"}
     /\ result.phase = "ready" /\ ~result.hadError) =>
    LET d == costMatrix
        nearest == result.method = "nearestInsertionPath"
        steps == LatestInsertionSteps
    IN /\ result.msg # BadInputError
       /\ Side(d) >= 2 =>
            /\ result.kind = "path"
            /\ Len(steps) = Side(d) - 2
            /\ Len(steps) > 0 => RawPathOf(result) = steps[Len(steps)].spliced
       /\ \A k \in 1..Len(steps) :
            LET path == steps[k].path
                new == steps[k].nextBestIndex
                unvisited == DOMAIN d \ steps[k].visited
                increase(i) == Minus(Plus(d[path[i]][new], d[new][path[i + 1]]),
                                     d[path[i]][path[i + 1]])
            IN /\ new \in unvisited
               /\ \E p \in Range(path) : \A q \in Range(path), v \in unvisited :
                    IF nearest THEN LessEq(d[p][new], d[q][v])
                    ELSE GreaterEq(d[p][new], d[q][v])
               /\ \E i \in 1..(Len(path) - 1) :
                    /\ steps[k].spliced =
                         SubSeq(path, 1, i) \o <<new>> \o SubSeq(path, i + 1, Len(path))
                    /\ \A j \in 1..(Len(path) - 1) : ~Less(increase(j), increase(i))

C24_Witness ==
  /\ result.method \in {"nearestInsertionPath", "farthestInsertionPath"}
  /\ result.phase = "ready" /\ result.kind = "path"
  /\ Len(LatestInsertionSteps) = 2
  /\ LatestInsertionSteps[2].replaceEdge.vertexA # 0

\* C25: for every index path of length >= 2 and every cost matrix,
\* sumPathCost(rawPath, costMatrix) is the sum of costMatrix[rawPath[i]][rawPath[i+1]]
\* over the consecutive pairs i = 0..length-2, the value estimateTotalPathCost
\* computes from the same arguments.
C25_SumPathCostAgrees ==
  (util.op = "sumPathCost" /\ Len(util.rawPath) >= 2) =>
    /\ util.err = "none"
    /\ util.sum = ConsecutiveSum(util.costMatrix, util.rawPath)
    /\ Cost(util.err, util.sum) = estimateTotalPathCost(util.costMatrix, util.rawPath)

\* C26: once init() has completed, no call of nearestNeighborPath,
\* nearestInsertionPath, farthestInsertionPath, simulatedAnnealing or
\* alphanumericSort changes a cell of the cost matrix or the index-to-node
\* mapping allNodes, nor anything else a greedy heuristic reads (the stored
\* error, the heuristics object, start and end, the stored routes), and a
\* greedy heuristic called again returns the path and cost it returned before.
C26_MatrixReadOnly ==
  [][phase = "ready" =>
       /\ costMatrix' = costMatrix
       /\ allNodes' = allNodes
       /\ <<error, greedy, start, end, phase, reconstructPath, shortestPaths>>'
            = <<error, greedy, start, end, phase, reconstructPath, shortestPaths>>
       /\ (result.method \in GreedyMethods /\ result.phase = "ready"
             /\ result'.method = result.method)
            => result' = result]_vars

C26_Witness ==
  /\ phase = "ready"
  /\ result.method = "alphanumericSort"
  /\ result.kind = "path"
  /\ ZeroBased(BuildAllNodes(start, end, nodes)) # allNodes
  /\ Len(nodes) = 2

\* the index of a node in allNodes
IndexOfNode(node) == CHOOSE i \in DOMAIN allNodes : allNodes[i] = node

\* C27: on every initialised instance, nodes without a uid included,
\* alphanumericSort returns the path start, the nodes in ascending order of
\* identifier, then end (Hamiltonian path) or start (closed tour), and an
\* estimatedCost that is the sum of the cost-matrix entries between the
\* consecutive nodes of that path.
C27_AlphanumericSortCost ==
  (result.method = "alphanumericSort" /\ result.phase = "ready" /\ ~result.hadError) =>
    LET path == result.path
        last == IF isHamiltonianPathProblem THEN end ELSE start
    IN /\ result.kind = "path"
       /\ Len(path) = Len(nodes) + 2
       /\ path[1] = start
       /\ path[Len(path)] = last
       /\ Range(SubSeq(path, 2, Len(path) - 1)) = Range(nodes)
       /\ \A i, j \in 2..(Len(path) - 1) : i < j => CompareNodes(path[i], path[j]) <= 0
       /\ result.cost = ConsecutiveSum(costMatrix, [i \in 1..Len(path) |-> IndexOfNode(path[i])])

Occurrences(p, v) == Cardinality({i \in 1..Len(p) : p[i] = v})

\* p holds the elements of q, each as often as q does
IsRearrangement(p, q) ==
  /\ Len(p) = Len(q)
  /\ \A v \in Range(p) \cup Range(q) : Occurrences(p, v) = Occurrences(q, v)

\* C28: every path the annealer holds (the current path, which is each
\* accepted neighbour, and the best path) is a rearrangement of the initial
\* path, and the path it returns visits every vertex once: a closed tour has 0
\* at its two ends and nowhere else, a Hamiltonian path starts at 0 and ends
\* at 1.
C28_AnnealerRearranges ==
  LET initialPath == InitialPath(costMatrix, isHamiltonianPathProblem)
  IN /\ sa.pc = "loop" =>
          /\ IsRearrangement(sa.prevPath, initialPath)
          /\ IsRearrangement(sa.bestPath, initialPath)
     /\ (result.method = "simulatedAnnealing" /\ result.kind = "path") =>
          LET path == result.rawPath
          IN /\ IsRearrangement(path, initialPath)
             /\ path[1] = 0
             /\ path[Len(path)] = IF isHamiltonianPathProblem THEN 1 ELSE 0

\* C29: however often prims() has been called on an MST instance (once or
\* more), mstEdges holds the n-1 edges of the spanning tree the first call
\* built: a repeated call yields the edge list of the first call.
C29_PrimsRepeatable ==
  (mst.kind = "matrix" /\ mst.calls >= 1
     /\ Side(mst.distances) >= 2 /\ AllFinite(mst.distances)) =>
    /\ Len(mst.mstEdges) = Side(mst.distances) - 1
    /\ mst.mstEdges = prims(mst.distances, {}).mstEdges

\* C30: for a closed tour, after every iteration of insertionPath the path
\* still begins with 0 and still ends with the vertex chosen as the first best
\* neighbour of 0: every vertex is spliced in before the last element, never
\* after it.
C30_InsertionKeepsEnds ==
  (/\ result.method \in {"nearestInsertionPath", "farthestInsertionPath"}
   /\ result.phase = "ready" /\ ~result.hadError
   /\ ~isHamiltonianPathProblem /\ Side(costMatrix) >= 2) =>
    LET nearest == result.method = "nearestInsertionPath"
        from == InsertionStart(costMatrix, FALSE, nearest).path
        steps == LatestInsertionSteps
    IN /\ from[1] = 0
       /\ \A k \in 1..Len(steps) :
            /\ steps[k].spliced[1] = 0
            /\ steps[k].spliced[Len(steps[k].spliced)] = from[2]
            /\ steps[k].replaceEdge.vertexA # steps[k].path[Len(steps[k].path)]
       /\ result.kind = "path"
       /\ RawPathOf(result)[1] = 0
       /\ RawPathOf(result)[Len(RawPathOf(result))] = from[2]

C30_Witness ==
  /\ result.method = "farthestInsertionPath"
  /\ result.phase = "ready" /\ result.kind = "path"
  /\ ~isHamiltonianPathProblem
  /\ Len(LatestInsertionSteps) >= 1
  /\ LatestInsertionSteps[1].path[2] # 1

====
